---- MODULE Spec2Model ----
(***************************************************************************)
(* A model of libbpf-rs: the OpenMap's setters, the loaded Map's CRUD      *)
(* operations and key iterator, PinnedMap (map.rs), the Program's attach   *)
(* dispatch and prog_run                                                   *)
(* (program.rs), and the bpf_obj_get wrappers (wrappers.rs).  The kernel   *)
(* BPF subsystem and libbpf are the environment: each kernel entry point   *)
(* is an operator named K_... giving the outcomes the call can have.       *)
(***************************************************************************)
EXTENDS Integers, Sequences, FiniteSets, TLC

\* ------------------------------------------------------------------ bounds
MaxKeySize == 2
MaxValueSize == 1
MaxEntries == 2
MaxLinks == 2
MaxFds == 3

\* The byte values buffers are drawn from (u8, cut down to two values).
Byte == {0, 1}

\* Caller-supplied buffers: every content of every length up to the largest
\* size, and one buffer that is longer than any size.
BufsOfLen(n) == [1..n -> Byte]
Zeros(n) == [i \in 1..n |-> 0]
KeyBufs == UNION {BufsOfLen(n) : n \in 0..MaxKeySize} \cup {Zeros(MaxKeySize + 1)}
ValueBufs == UNION {BufsOfLen(n) : n \in 0..MaxValueSize} \cup {Zeros(MaxValueSize + 1)}

\* --------------------------------------------------------------- constants
\* OS error numbers (nix::errno::Errno), as the kernel reports them.
Errno == [EPERM |-> 1, ENOENT |-> 2, E2BIG |-> 7, EBADF |-> 9, ENOMEM |-> 12,
          EACCES |-> 13, EBUSY |-> 16, EEXIST |-> 17, EINVAL |-> 22,
          EMFILE |-> 24, ENOTSUPP |-> 524]

\* bitflags! MapFlags: u64
MapFlags == [ANY |-> 0, NO_EXIST |-> 1, EXIST |-> 2, LOCK |-> 4]
\* The flag words callers pass: each flag alone.
FlagWords == {0, 1, 2, 4}

\* ------------------------------------------------------------------- state
VARIABLES
    key_size,      \* Map.key_size
    value_size,    \* Map.value_size
    lad_hash,      \* whether this kernel implements lookup_and_delete on hash maps
    kmap,          \* the kernel's hash map: <<[key, val], ...>> in get_next_key order
    iter,          \* the MapKeyIter of the running keys() loop
    yielded,       \* ghost: the keys the loop has produced while the map was stable
    stable,        \* ghost: no mutation of the map since keys() was called
    last,          \* ghost: the last library call, its kernel calls and its result
    prog_loaded,   \* the Program is loaded (Program exists only after load)
    links,         \* the live Link handles, each named by its bpf_link
    hooks,         \* the kernel's active attachments (bpf_links not yet destroyed)
    fs,            \* what each path names: "none", "file", "map" or "prog"
    ever_pinned,   \* ghost: the paths a pin() has ever created
    open_fds,      \* the file descriptors open in this process
    pmaps,         \* the live PinnedMap handles
    omap           \* the bpf_map behind the OpenMap: libbpf's view of its settings

mapVars == <<key_size, value_size, lad_hash, kmap, iter, yielded, stable>>
progVars == <<prog_loaded, links, hooks>>
pinVars == <<fs, ever_pinned, open_fds, pmaps>>
openVars == <<omap>>
vars == <<mapVars, progVars, pinVars, openVars, last>>

\* ----------------------------------------------------------------- results
\* Result<T>: Ok(()), Ok(None), Ok(Some(v)), Err(InvalidInput), Err(System(code))
OkUnit == [tag |-> "Ok", val |-> <<>>, code |-> 0]
OkNone == [tag |-> "None", val |-> <<>>, code |-> 0]
OkSome(v) == [tag |-> "Some", val |-> v, code |-> 0]
InvalidInput == [tag |-> "InvalidInput", val |-> <<>>, code |-> 0]
System(c) == [tag |-> "System", val |-> <<>>, code |-> c]

\* Option<Vec<u8>> of MapKeyIter.prev
NoKey == [some |-> FALSE, v |-> <<>>]
SomeKey(k) == [some |-> TRUE, v |-> k]

\* What a kernel entry point hands back: the return value, the errno it left,
\* and the bytes it wrote to the output buffer.
KOk(out) == [ret |-> 0, errno |-> 0, out |-> out]
\* A failing bpf() syscall wrapper returns -1 (libbpf before 1.0) or -errno
\* (libbpf 1.0); errno is set in both.
KFail(e) == {[ret |-> r, errno |-> e, out |-> <<>>] : r \in {-1, -e}}
\* The map element calls, whose return value the library only tests against 0.
KErr(e) == {[ret |-> -1, errno |-> e, out |-> <<>>]}

Range(q) == {q[i] : i \in 1..Len(q)}

\* The record of a Map or MapKeyIter call.
Call(op, key, value, flags, kcalls, k, ret) ==
    [op |-> op, key |-> key, value |-> value, flags |-> flags,
     kcalls |-> kcalls, sig |-> k.ret, errno |-> k.errno, ret |-> ret]
NoK == [ret |-> 0, errno |-> 0, out |-> <<>>]
\* The record of a Program, Link or pin call: sig is the error signal or return
\* value the library read, errno the OS error number behind it.
PCall(op, arg, kcalls, sig, errno, ret) ==
    [op |-> op, arg |-> arg, kcalls |-> kcalls, sig |-> sig, errno |-> errno,
     ret |-> ret]

\* ------------------------------------------------------ the kernel hash map
KeysOf(m) == {m[i].key : i \in 1..Len(m)}
IndexOf(m, k) == CHOOSE i \in 1..Len(m) : m[i].key = k
ValueOf(m, k) == m[IndexOf(m, k)].val
Without(m, k) == SelectSeq(m, LAMBDA e : e.key # k)
InsertAt(m, i, e) == SubSeq(m, 1, i - 1) \o <<e>> \o SubSeq(m, i, Len(m))

\* copy_from_user of n bytes from a caller's buffer: a buffer shorter than n
\* is read past its end, whatever bytes lie there.
K_copy_in(buf, n) ==
    {s \in BufsOfLen(n) : \A i \in 1..n : i <= Len(buf) => s[i] = buf[i]}

\* BPF_MAP_LOOKUP_ELEM on a hash map without a spin lock.
K_lookup_elem(m, k, flags) ==
    IF flags # MapFlags.ANY
        THEN KErr(Errno.EINVAL)
    ELSE IF k \notin KeysOf(m)
        THEN KErr(Errno.ENOENT)
    ELSE {KOk(ValueOf(m, k))}

\* BPF_MAP_DELETE_ELEM: the outcomes, each with the map it leaves.
K_delete_elem(m, k) ==
    IF k \notin KeysOf(m)
        THEN {[r |-> f, m |-> m] : f \in KErr(Errno.ENOENT)}
    ELSE {[r |-> KOk(<<>>), m |-> Without(m, k)]}

\* BPF_MAP_LOOKUP_AND_DELETE_ELEM: on a hash map only where the kernel has it.
K_lookup_and_delete_elem(m, k) ==
    IF ~lad_hash
        THEN {[r |-> f, m |-> m] : f \in KErr(Errno.ENOTSUPP)}
    ELSE IF k \notin KeysOf(m)
        THEN {[r |-> f, m |-> m] : f \in KErr(Errno.ENOENT)}
    ELSE {[r |-> KOk(ValueOf(m, k)), m |-> Without(m, k)]}

\* BPF_MAP_UPDATE_ELEM: a new element takes the head of its bucket, so it may
\* land anywhere in the get_next_key order.
K_update_elem(m, k, v, flags) ==
    IF flags \notin {MapFlags.ANY, MapFlags.NO_EXIST, MapFlags.EXIST}
        THEN {[r |-> f, m |-> m] : f \in KErr(Errno.EINVAL)}
    ELSE IF flags = MapFlags.NO_EXIST /\ k \in KeysOf(m)
        THEN {[r |-> f, m |-> m] : f \in KErr(Errno.EEXIST)}
    ELSE IF flags = MapFlags.EXIST /\ k \notin KeysOf(m)
        THEN {[r |-> f, m |-> m] : f \in KErr(Errno.ENOENT)}
    ELSE IF k \notin KeysOf(m) /\ Len(m) >= MaxEntries
        THEN {[r |-> f, m |-> m] : f \in KErr(Errno.E2BIG)}
    ELSE {[r |-> KOk(<<>>), m |-> InsertAt(Without(m, k), i, [key |-> k, val |-> v])] :
            i \in 1..(Len(Without(m, k)) + 1)}

\* BPF_MAP_GET_NEXT_KEY: a null or unknown previous key starts over.
K_get_next_key(m, prev) ==
    LET at == IF prev.some /\ prev.v \in KeysOf(m) THEN IndexOf(m, prev.v) ELSE 0
    IN  IF at + 1 > Len(m)
            THEN KErr(Errno.ENOENT)
        ELSE {KOk(m[at + 1].key)}

\* ------------------------------------------------------------------ MapOps
\* Mutant: the key length is never checked.
key_len_unchecked(key) == TRUE
\* if key.len() != self.key_size() as usize { return Err(InvalidInput) }
key_len_ok(key) == Len(key) = key_size

\* Mutant: the value length is never checked.
value_len_unchecked(value) == TRUE
\* if value.len() != self.value_size() as usize { return Err(InvalidInput) }
value_len_ok(value) == Len(value) = value_size

\* Mutant: ENOENT is passed on like any other failure.
lookup_result_no_enoent(k) ==
    IF k.ret = 0 THEN OkSome(SubSeq(k.out, 1, value_size)) ELSE System(k.errno)
\* if ret == 0 { set_len(value_size); Ok(Some(out)) } else { ENOENT => Ok(None) }
lookup_result(k) ==
    IF k.ret = 0
        THEN OkSome(SubSeq(k.out, 1, value_size))
    ELSE IF k.errno = Errno.ENOENT
        THEN OkNone
    ELSE System(k.errno)

\* Mutant: delete treats ENOENT as lookup does.
delete_result_enoent_ok(k) ==
    IF k.ret = 0 \/ k.errno = Errno.ENOENT THEN OkUnit ELSE System(k.errno)
\* delete: if ret == 0 { Ok(()) } else { Err(Error::System(errno::errno())) }
delete_result(k) == IF k.ret = 0 THEN OkUnit ELSE System(k.errno)

\* update: if ret == 0 { Ok(()) } else { Err(Error::System(errno::errno())) }
update_result(k) == IF k.ret = 0 THEN OkUnit ELSE System(k.errno)

\* A successful mutating kernel call ends the stability of a running iteration.
Mutates(o) ==
    /\ kmap' = o.m
    /\ IF o.r.ret = 0
         THEN stable' = FALSE /\ yielded' = <<>>
         ELSE UNCHANGED <<stable, yielded>>

lookup(key, flags) ==
    /\ IF ~key_len_ok(key)
         THEN last' = Call("lookup", key, <<>>, flags, <<>>, NoK, InvalidInput)
         ELSE \E kk \in K_copy_in(key, key_size) :
              \E k \in K_lookup_elem(kmap, kk, flags) :
                last' = Call("lookup", key, <<>>, flags,
                             <<"bpf_map_lookup_elem_flags">>, k, lookup_result(k))
    /\ UNCHANGED <<key_size, value_size, lad_hash, kmap, iter, yielded, stable, progVars, pinVars, openVars>>

delete(key) ==
    /\ IF ~key_len_ok(key)
         THEN /\ last' = Call("delete", key, <<>>, 0, <<>>, NoK, InvalidInput)
              /\ UNCHANGED <<kmap, yielded, stable>>
         ELSE \E kk \in K_copy_in(key, key_size) :
              \E o \in K_delete_elem(kmap, kk) :
                /\ last' = Call("delete", key, <<>>, 0,
                                <<"bpf_map_delete_elem">>, o.r, delete_result(o.r))
                /\ Mutates(o)
    /\ UNCHANGED <<key_size, value_size, lad_hash, iter, progVars, pinVars, openVars>>

lookup_and_delete(key) ==
    /\ IF ~key_len_ok(key)
         THEN /\ last' = Call("lookup_and_delete", key, <<>>, 0, <<>>, NoK, InvalidInput)
              /\ UNCHANGED <<kmap, yielded, stable>>
         ELSE \E kk \in K_copy_in(key, key_size) :
              \E o \in K_lookup_and_delete_elem(kmap, kk) :
                /\ last' = Call("lookup_and_delete", key, <<>>, 0,
                                <<"bpf_map_lookup_and_delete_elem">>, o.r,
                                lookup_result(o.r))
                /\ Mutates(o)
    /\ UNCHANGED <<key_size, value_size, lad_hash, iter, progVars, pinVars, openVars>>

update(key, value, flags) ==
    /\ IF ~key_len_ok(key) \/ ~value_len_ok(value)
         THEN /\ last' = Call("update", key, value, flags, <<>>, NoK, InvalidInput)
              /\ UNCHANGED <<kmap, yielded, stable>>
         ELSE \E kk \in K_copy_in(key, key_size) :
              \E vv \in K_copy_in(value, value_size) :
              \E o \in K_update_elem(kmap, kk, vv, flags) :
                /\ last' = Call("update", key, value, flags,
                                <<"bpf_map_update_elem">>, o.r, update_result(o.r))
                /\ Mutates(o)
    /\ UNCHANGED <<key_size, value_size, lad_hash, iter, progVars, pinVars, openVars>>

\* ------------------------------------------------------------- MapKeyIter
\* MapKeyIter::new: prev: None, next: vec![0; key_size]
keys ==
    /\ ~iter.live \/ iter.done
    /\ iter' = [live |-> TRUE, prev |-> NoKey,
                next |-> Zeros(key_size), done |-> FALSE]
    /\ yielded' = <<>>
    /\ stable' = TRUE
    /\ last' = Call("keys", <<>>, <<>>, 0, <<>>, NoK, OkUnit)
    /\ UNCHANGED <<key_size, value_size, lad_hash, kmap, progVars, pinVars, openVars>>

\* Mutant: prev is cloned from the buffer before the kernel has filled it.
iter_step_lagging(it, k) ==
    IF k.ret # 0
        THEN [it EXCEPT !.done = TRUE]
    ELSE [it EXCEPT !.next = k.out, !.prev = SomeKey(it.next)]
\* Mutant: prev is never set.
iter_step_no_prev(it, k) ==
    IF k.ret # 0
        THEN [it EXCEPT !.done = TRUE]
    ELSE [it EXCEPT !.next = k.out]
\* if ret != 0 { None } else { self.prev = Some(self.next.clone()); Some(..) }
iter_step(it, k) ==
    IF k.ret # 0
        THEN [it EXCEPT !.done = TRUE]
    ELSE [it EXCEPT !.next = k.out, !.prev = SomeKey(k.out)]

iter_result(it, k) == IF k.ret # 0 THEN OkNone ELSE OkSome(k.out)

\* MapKeyIter::next, called by a loop that stops at the first None.
next ==
    /\ iter.live /\ ~iter.done
    /\ \E k \in K_get_next_key(kmap, iter.prev) :
        /\ iter' = iter_step(iter, k)
        /\ last' = Call("next", <<>>, <<>>, 0, <<"bpf_map_get_next_key">>, k,
                        iter_result(iter_step(iter, k), k))
        /\ yielded' = IF k.ret = 0 /\ stable THEN Append(yielded, k.out) ELSE yielded
    /\ UNCHANGED <<key_size, value_size, lad_hash, kmap, stable, progVars, pinVars, openVars>>

\* ----------------------------------------------------------------- Program
\* The Link-producing attach methods of Program.
AttachVariants ==
    {"attach", "attach_cgroup", "attach_perf_event", "attach_uprobe",
     "attach_kprobe", "attach_tracepoint", "attach_raw_tracepoint",
     "attach_lsm", "attach_trace", "attach_xdp"}

\* Hook names and paths as bytes: one plain, one with an interior NUL.
Names == {<<1>>, <<0>>}
\* The string arguments each variant converts before it calls libbpf.
StrArgs(variant) ==
    CASE variant \in {"attach_uprobe", "attach_kprobe", "attach_raw_tracepoint"}
            -> {<<n>> : n \in Names}
      [] variant = "attach_tracepoint"
            -> {<<c, n>> : c \in Names, n \in Names}
      [] OTHER -> {<<>>}

\* util::str_to_cstring / util::path_to_cstring: no interior NUL byte.
cstring_ok(str) == 0 \notin Range(str)

\* err as i32: libbpf_get_error gives a C long within -4095..0 (MAX_ERRNO);
\* on these, as on every integer this model can hold, the cast keeps the value.
ToI32(x) == x

\* bpf_program__attach_*: a new bpf_link, or an error pointer ERR_PTR(-errno);
\* libbpf_get_error gives 0 for the first and -errno for the second.
LinkIds == 1..MaxLinks
K_attach ==
    {[ptr |-> l, err |-> 0] : l \in LinkIds \ (hooks \cup links)}
    \cup {[ptr |-> -e, err |-> -e] : e \in {Errno.EPERM, Errno.EINVAL}}

\* Mutant: only a positive error signal counts as an error.
attach_is_error_positive(err) == err > 0
\* if err != 0 { Err(..) } else { Ok(Link::new(ptr)) }
attach_is_error(err) == err # 0

\* Err(Error::System(err as i32))
attach_error(err) == System(ToI32(err))

\* Ok(Link::new(ptr))
OkLink(ptr) == [tag |-> "Link", val |-> <<ptr>>, code |-> 0]

attach_link(variant, strs) ==
    /\ prog_loaded
    /\ IF \E i \in 1..Len(strs) : ~cstring_ok(strs[i])
         THEN /\ last' = PCall(variant, strs, <<>>, 0, 0, InvalidInput)
              /\ UNCHANGED <<links, hooks>>
         ELSE \E o \in K_attach :
              /\ hooks' = IF o.err = 0 THEN hooks \cup {o.ptr} ELSE hooks
              /\ IF attach_is_error(o.err)
                   THEN /\ last' = PCall(variant, strs, <<"bpf_program__" \o variant>>,
                                         o.err, -o.err, attach_error(o.err))
                        /\ links' = links
                   ELSE /\ last' = PCall(variant, strs, <<"bpf_program__" \o variant>>,
                                         o.err, -o.err, OkLink(o.ptr))
                        /\ links' = links \cup {o.ptr}
    /\ UNCHANGED <<prog_loaded, mapVars, pinVars, openVars>>

\* Drop for Link: bpf_link__destroy(self.ptr) detaches the hook.
link_drop(l) ==
    /\ l \in links
    /\ links' = links \ {l}
    /\ hooks' = hooks \ {l}
    /\ last' = PCall("link_drop", <<l>>, <<"bpf_link__destroy">>, 0, 0, OkUnit)
    /\ UNCHANGED <<prog_loaded, mapVars, pinVars, openVars>>

\* bpf_prog_test_run: the program's return value and run time, or a failure.
K_prog_test_run ==
    {KOk(<<retval, duration>>) : retval \in {0, 1}, duration \in {0, 7}}
    \cup KFail(Errno.EINVAL) \cup KFail(Errno.EPERM)

\* if ret != 0 { return Err(Error::System(-ret)) }  Ok((retval, duration))
prog_run_result(k) ==
    IF k.ret # 0
        THEN System(-k.ret)
    ELSE [tag |-> "Ok", val |-> k.out, code |-> 0]

prog_run(repeat, data_in, data_out) ==
    /\ prog_loaded
    /\ \E k \in K_prog_test_run :
        last' = PCall("prog_run", <<repeat, data_in, data_out>>,
                      <<"bpf_prog_test_run">>, k.ret, k.errno, prog_run_result(k))
    /\ UNCHANGED <<progVars, mapVars, pinVars, openVars>>

\* ----------------------------------------------------------------- pinning
\* The paths the filesystem can hold, and one that no C string can carry.
Paths == {"a", "b_not_utf8"}
NulPaths == {"c_nul"}
PathArgs == Paths \cup NulPaths

\* util::path_to_cstring
path_cstring_ok(path) == path \notin NulPaths
\* path.file_name().unwrap().to_str()
file_name_is_str(path) == path # "b_not_utf8"

\* bpf_map__pin / bpf_program__pin: -errno, or 0 and the object at the path.
K_pin(path, kind) ==
    IF fs[path] # "none"
        THEN {[ret |-> -Errno.EEXIST, fs |-> fs]}
    ELSE {[ret |-> 0, fs |-> [fs EXCEPT ![path] = kind]]}

\* bpf_map__unpin / bpf_program__unpin: -errno, or 0 and the path removed.
K_unpin(path) ==
    IF fs[path] = "none"
        THEN {[ret |-> -Errno.ENOENT, fs |-> fs]}
    ELSE IF fs[path] = "file"
        THEN {[ret |-> -Errno.EINVAL, fs |-> fs]}
    ELSE {[ret |-> 0, fs |-> [fs EXCEPT ![path] = "none"]]}

\* if ret != 0 { Err(Error::System(-ret)) } else { Ok(()) }
pin_result(ret) == IF ret # 0 THEN System(-ret) ELSE OkUnit

\* Map::pin and Program::pin
pin(what, path) ==
    /\ IF ~path_cstring_ok(path)
         THEN /\ last' = PCall(what \o "::pin", path, <<>>, 0, 0, InvalidInput)
              /\ UNCHANGED <<fs, ever_pinned>>
         ELSE \E o \in K_pin(path, what) :
              /\ last' = PCall(what \o "::pin", path, <<"bpf_" \o what \o "__pin">>,
                               o.ret, -o.ret, pin_result(o.ret))
              /\ fs' = o.fs
              /\ ever_pinned' = IF o.ret = 0 THEN ever_pinned \cup {path}
                                ELSE ever_pinned
    /\ UNCHANGED <<open_fds, pmaps, mapVars, progVars, openVars>>

\* Map::unpin and Program::unpin
unpin(what, path) ==
    /\ IF ~path_cstring_ok(path)
         THEN /\ last' = PCall(what \o "::unpin", path, <<>>, 0, 0, InvalidInput)
              /\ UNCHANGED fs
         ELSE \E o \in K_unpin(path) :
              /\ last' = PCall(what \o "::unpin", path, <<"bpf_" \o what \o "__unpin">>,
                               o.ret, -o.ret, pin_result(o.ret))
              /\ fs' = o.fs
    /\ UNCHANGED <<ever_pinned, open_fds, pmaps, mapVars, progVars, openVars>>

\* Another program creates or removes a plain file.
fs_create(path) ==
    /\ fs[path] = "none"
    /\ fs' = [fs EXCEPT ![path] = "file"]
    /\ last' = PCall("fs_create", path, <<>>, 0, 0, OkUnit)
    /\ UNCHANGED <<ever_pinned, open_fds, pmaps, mapVars, progVars, openVars>>

fs_remove(path) ==
    /\ fs[path] = "file"
    /\ fs' = [fs EXCEPT ![path] = "none"]
    /\ last' = PCall("fs_remove", path, <<>>, 0, 0, OkUnit)
    /\ UNCHANGED <<ever_pinned, open_fds, pmaps, mapVars, progVars, openVars>>

\* ---------------------------------------------------------------- wrappers
FdPool == 3..(2 + MaxFds)
FreeFds == FdPool \ open_fds
LowestFree == CHOOSE fd \in FreeFds : \A g \in FreeFds : fd <= g

\* BPF_OBJ_GET on a path: a new fd for a pinned object.
K_obj_get(path) ==
    IF fs[path] = "none"
        THEN KFail(Errno.ENOENT)
    ELSE IF fs[path] = "file"
        THEN KFail(Errno.EACCES)
    ELSE IF FreeFds = {}
        THEN KFail(Errno.EMFILE)
    ELSE {[ret |-> LowestFree, errno |-> 0, out |-> <<>>]}

\* if fd < 0 { return Err(Error::System(errno::errno())) }  Ok(fd)
bpf_obj_get_result(k) ==
    IF k.ret < 0 THEN System(k.errno) ELSE [tag |-> "Ok", val |-> <<k.ret>>, code |-> 0]

\* BPF_OBJ_GET_INFO_BY_FD: the map's sizes, or a failure (a kernel without it).
K_obj_get_info_by_fd(kind) ==
    {KOk(IF kind = "map" THEN <<key_size, value_size>> ELSE <<0, 0>>)}
    \cup KFail(Errno.EINVAL)

\* if rc != 0 { return Err(Error::System(-rc)) }  Ok(info)
bpf_obj_get_info_by_fd_result(k) ==
    IF k.ret # 0 THEN System(-k.ret) ELSE [tag |-> "Ok", val |-> k.out, code |-> 0]

\* --------------------------------------------------------------- PinnedMap
\* Mutant: the path is handed to the kernel without the is_file() test.
expecting_a_file_unchecked(path) == FALSE
\* if !path.is_file() { return Err(Error::InvalidInput("Expecting a file!")) }
expecting_a_file(path) == ~(path \in Paths /\ fs[path] # "none")

try_from_path(path) ==
    /\ IF expecting_a_file(path) \/ ~path_cstring_ok(path)
         THEN /\ last' = PCall("try_from_path", path, <<>>, 0, 0, InvalidInput)
              /\ UNCHANGED <<open_fds, pmaps>>
         ELSE \E g \in K_obj_get(path) :
              IF bpf_obj_get_result(g).tag = "System"
                THEN /\ last' = PCall("try_from_path", path, <<"bpf_obj_get">>,
                                      g.ret, g.errno, bpf_obj_get_result(g))
                     /\ UNCHANGED <<open_fds, pmaps>>
              ELSE IF ~file_name_is_str(path)
                THEN /\ last' = PCall("try_from_path", path, <<"bpf_obj_get">>,
                                      g.ret, g.errno, InvalidInput)
                     /\ open_fds' = open_fds \cup {g.ret}
                     /\ UNCHANGED pmaps
              ELSE \E i \in K_obj_get_info_by_fd(fs[path]) :
                     /\ open_fds' = open_fds \cup {g.ret}
                     /\ IF bpf_obj_get_info_by_fd_result(i).tag = "System"
                          THEN /\ last' = PCall("try_from_path", path,
                                    <<"bpf_obj_get", "bpf_obj_get_info_by_fd">>,
                                    i.ret, i.errno, bpf_obj_get_info_by_fd_result(i))
                               /\ UNCHANGED pmaps
                          ELSE /\ last' = PCall("try_from_path", path,
                                    <<"bpf_obj_get", "bpf_obj_get_info_by_fd">>,
                                    i.ret, i.errno,
                                    [tag |-> "Ok", val |-> <<g.ret>>, code |-> 0])
                               /\ pmaps' = pmaps \cup
                                    {[fd |-> g.ret, name |-> path,
                                      key_size |-> i.out[1], value_size |-> i.out[2]]}
    /\ UNCHANGED <<fs, ever_pinned, mapVars, progVars, openVars>>

\* Drop for PinnedMap: nix::unistd::close(self.fd).unwrap()
pinned_map_drop(h) ==
    /\ h \in pmaps
    /\ pmaps' = pmaps \ {h}
    /\ open_fds' = open_fds \ {h.fd}
    /\ last' = PCall("pinned_map_drop", h.fd, <<"close">>, 0, 0, OkUnit)
    /\ UNCHANGED <<fs, ever_pinned, mapVars, progVars, openVars>>

\* ----------------------------------------------------------------- OpenMap
\* What a setter that returns nothing hands back.
Unit == [tag |-> "Unit", val |-> <<>>, code |-> 0]

\* The arguments the setters are called with.
IfIndexes == {1, 2}
EntryCounts == 1..MaxEntries
InnerMaps == {"map"}

\* The outcome of a libbpf call on the bpf_map: its return value and the
\* bpf_map it leaves.  A failing call leaves the bpf_map as it was.
MOk(m) == [ret |-> 0, m |-> m]
MFail(e, m) == [ret |-> -e, m |-> m]

\* bpf_map__set_ifindex: stores the index; a libbpf that checks refuses it
\* with -EBUSY once the map has an fd.
K_set_ifindex(m, idx) ==
    {MOk([m EXCEPT !.ifindex = idx])}
    \cup (IF m.fd >= 0 THEN {MFail(Errno.EBUSY, m)} ELSE {})

\* bpf_map__set_initial_value: -EINVAL for a map that has an fd or for data
\* that is not value_size bytes long.
K_set_initial_value(m, data) ==
    IF m.fd >= 0 \/ Len(data) # value_size
        THEN {MFail(Errno.EINVAL, m)}
    ELSE {MOk([m EXCEPT !.initial_value = data])}

\* bpf_map__set_max_entries: -EBUSY for a map that has an fd.
K_set_max_entries(m, count) ==
    IF m.fd >= 0
        THEN {MFail(Errno.EBUSY, m)}
    ELSE {MOk([m EXCEPT !.max_entries = count])}

\* bpf_map__set_inner_map_fd: -EINVAL for a map that is no map of maps or
\* that has an inner map already; it does not look at whether the map is loaded.
K_set_inner_map_fd(m, inner) ==
    {MFail(Errno.EINVAL, m)}
    \cup (IF m.inner_map_fd = "none" THEN {MOk([m EXCEPT !.inner_map_fd = inner])} ELSE {})

\* pub fn set_map_ifindex(&mut self, idx: u32): the call's outcome is dropped.
set_map_ifindex(idx) ==
    /\ \E o \in K_set_ifindex(omap, idx) :
        /\ omap' = o.m
        /\ last' = PCall("set_map_ifindex", idx, <<"bpf_map__set_ifindex">>,
                         o.ret, -o.ret, Unit)
    /\ UNCHANGED <<mapVars, progVars, pinVars>>

\* if ret != 0 { return Err(Error::System(-ret)) }  Ok(())
set_result(ret) == IF ret # 0 THEN System(-ret) ELSE OkUnit

set_initial_value(data) ==
    /\ \E o \in K_set_initial_value(omap, data) :
        /\ omap' = o.m
        /\ last' = PCall("set_initial_value", data, <<"bpf_map__set_initial_value">>,
                         o.ret, -o.ret, set_result(o.ret))
    /\ UNCHANGED <<mapVars, progVars, pinVars>>

set_max_entries(count) ==
    /\ \E o \in K_set_max_entries(omap, count) :
        /\ omap' = o.m
        /\ last' = PCall("set_max_entries", count, <<"bpf_map__set_max_entries">>,
                         o.ret, -o.ret, set_result(o.ret))
    /\ UNCHANGED <<mapVars, progVars, pinVars>>

\* pub fn set_inner_map_fd(&mut self, inner: &Map): the call's outcome is dropped.
set_inner_map_fd(inner) ==
    /\ \E o \in K_set_inner_map_fd(omap, inner) :
        /\ omap' = o.m
        /\ last' = PCall("set_inner_map_fd", inner, <<"bpf_map__set_inner_map_fd">>,
                         o.ret, -o.ret, Unit)
    /\ UNCHANGED <<mapVars, progVars, pinVars>>

\* The collective load: the kernel creates the map and gives it an fd, unless
\* the bpf_map already holds the fd of a pinned map.
load ==
    /\ ~omap.loaded
    /\ IF omap.fd >= 0
         THEN /\ omap' = [omap EXCEPT !.loaded = TRUE]
              /\ UNCHANGED open_fds
         ELSE /\ FreeFds # {}
              /\ omap' = [omap EXCEPT !.loaded = TRUE, !.fd = LowestFree]
              /\ open_fds' = open_fds \cup {LowestFree}
    /\ last' = PCall("load", <<>>, <<"bpf_object__load">>, 0, 0, OkUnit)
    /\ UNCHANGED <<fs, ever_pinned, pmaps, mapVars, progVars>>

LowestOf(S) == CHOOSE x \in S : \A y \in S : x <= y

\* bpf_map__reuse_fd(map, fd) with the fds open at the call: it reads the
\* map's info from fd, duplicates fd, closes the fd the bpf_map held and keeps
\* the duplicate; or it fails (fd is no map, no fd is left, no info) and
\* leaves everything as it was.
K_reuse_fd(m, fd, kind, fds) ==
    LET free == FdPool \ fds
        fail(e) == {[ret |-> r, errno |-> e, m |-> m, fds |-> fds] : r \in {-1, -e}}
    IN  IF kind # "map"
            THEN fail(Errno.EINVAL)
        ELSE IF free = {}
            THEN fail(Errno.EMFILE)
        ELSE fail(Errno.EINVAL)
             \cup {[ret |-> 0, errno |-> 0,
                    m |-> [m EXCEPT !.fd = LowestOf(free), !.reused = TRUE,
                                    !.max_entries = MaxEntries],
                    fds |-> (fds \cup {LowestOf(free)})
                            \ (IF m.fd >= 0 THEN {m.fd} ELSE {})]}

\* Mutant: the fd is never closed.
close_fd_skipped(fds, fd) == fds
\* let _ = unistd::close(fd);
close_fd(fds, fd) == fds \ {fd}

\* if ret != 0 { return Err(Error::System(-ret)) }  Ok(())
reuse_result(ret) == IF ret # 0 THEN System(-ret) ELSE OkUnit

reuse_pinned_map(path) ==
    /\ IF ~path_cstring_ok(path)
         THEN /\ last' = PCall("reuse_pinned_map", path, <<>>, 0, 0, InvalidInput)
              /\ UNCHANGED <<omap, open_fds>>
         ELSE \E g \in K_obj_get(path) :
              IF bpf_obj_get_result(g).tag # "Ok"
                THEN /\ last' = PCall("reuse_pinned_map", path, <<"bpf_obj_get">>,
                                      g.ret, g.errno, bpf_obj_get_result(g))
                     /\ UNCHANGED <<omap, open_fds>>
              ELSE \E o \in K_reuse_fd(omap, g.ret, fs[path], open_fds \cup {g.ret}) :
                     /\ omap' = o.m
                     /\ open_fds' = close_fd(o.fds, g.ret)
                     /\ last' = PCall("reuse_pinned_map", path,
                                      <<"bpf_obj_get", "bpf_map__reuse_fd", "close">>,
                                      o.ret, o.errno, reuse_result(o.ret))
    /\ UNCHANGED <<fs, ever_pinned, pmaps, mapVars, progVars>>

Init ==
    /\ key_size \in 1..MaxKeySize
    /\ value_size \in 1..MaxValueSize
    /\ lad_hash \in BOOLEAN
    /\ kmap = <<>>
    /\ iter = [live |-> FALSE, prev |-> NoKey, next |-> <<>>, done |-> FALSE]
    /\ yielded = <<>>
    /\ stable = FALSE
    /\ last = Call("new", <<>>, <<>>, 0, <<>>, NoK, OkUnit)
    /\ prog_loaded = TRUE
    /\ links = {}
    /\ hooks = {}
    /\ fs = [p \in Paths |-> "none"]
    /\ ever_pinned = {}
    /\ open_fds = {}
    /\ pmaps = {}
    /\ omap = [loaded |-> FALSE, fd |-> -1, ifindex |-> 0, max_entries |-> 1,
               initial_value |-> Zeros(value_size), inner_map_fd |-> "none",
               reused |-> FALSE]

\* Every CRUD call with every buffer length and flag word.
NextCrud ==
    \/ \E key \in KeyBufs, flags \in FlagWords : lookup(key, flags)
    \/ \E key \in KeyBufs : delete(key)
    \/ \E key \in KeyBufs : lookup_and_delete(key)
    \/ \E key \in KeyBufs, value \in ValueBufs, flags \in FlagWords :
            update(key, value, flags)

\* A keys() loop, and well-formed inserts and deletes that may interleave with it.
NextIter ==
    \/ keys
    \/ next
    \/ \E key \in BufsOfLen(key_size) : update(key, Zeros(value_size), MapFlags.ANY)
    \/ \E key \in BufsOfLen(key_size) : delete(key)

\* The Program: every attach variant, the drop of a Link, and prog_run.
NextProg ==
    \/ \E variant \in AttachVariants : \E strs \in StrArgs(variant) :
            attach_link(variant, strs)
    \/ \E l \in links : link_drop(l)
    \/ \E data_in \in BufsOfLen(1), data_out \in BOOLEAN : prog_run(1, data_in, data_out)

\* Pinning of the Map and the Program, and PinnedMap.
NextPin ==
    \/ \E what \in {"map", "prog"}, path \in PathArgs : pin(what, path)
    \/ \E what \in {"map", "prog"}, path \in PathArgs : unpin(what, path)
    \/ \E path \in Paths : fs_create(path)
    \/ \E path \in Paths : fs_remove(path)
    \/ \E path \in PathArgs : try_from_path(path)
    \/ \E h \in pmaps : pinned_map_drop(h)

\* The OpenMap: its setters before and after the load, and the pins it can reuse.
NextOpen ==
    \/ \E idx \in IfIndexes : set_map_ifindex(idx)
    \/ \E data \in ValueBufs : set_initial_value(data)
    \/ \E count \in EntryCounts : set_max_entries(count)
    \/ \E inner \in InnerMaps : set_inner_map_fd(inner)
    \/ \E path \in PathArgs : reuse_pinned_map(path)
    \/ load
    \/ \E what \in {"map", "prog"}, path \in Paths : pin(what, path)
    \/ \E path \in Paths : fs_create(path)

Next == NextCrud \/ NextIter \/ NextProg \/ NextPin \/ NextOpen

Spec == Init /\ [][Next]_vars
SpecProg == Init /\ [][NextProg]_vars
SpecPin == Init /\ [][NextPin]_vars
SpecOpen == Init /\ [][NextOpen]_vars
SpecCrud == Init /\ [][NextCrud]_vars
SpecIter == Init /\ [][NextIter]_vars
\* The loop calls next() until it returns None.
LiveIter == SpecIter /\ WF_vars(next)

\* ------------------------------------------------------------------ claims
CrudOps == {"lookup", "delete", "lookup_and_delete", "update"}
KernelFailed(c) == c.errno \notin {0, Errno.ENOENT}
\* C1: a CRUD call whose key is not key_size bytes long, or an update whose
\* value is not value_size bytes long, returns InvalidInput, issues no kernel
\* call and leaves the map as it was.
C1_LengthValidation ==
    [][LET c == last' IN
        (/\ c.op \in CrudOps
         /\ \/ Len(c.key) # key_size
            \/ c.op = "update" /\ Len(c.value) # value_size)
        => /\ c.ret = InvalidInput
           /\ c.kcalls = <<>>
           /\ kmap' = kmap]_vars

C1_Witness ==
    /\ last.op = "update"
    /\ Len(last.key) > key_size
    /\ Len(last.value) = value_size
    /\ last.ret = InvalidInput
    /\ Len(kmap) > 0

\* C2: lookup and lookup_and_delete with a key of key_size bytes return
\* Ok(None) for an absent key and Some(value) of value_size bytes for a present
\* one; the only other result is System(errno) for a kernel failure that is not
\* "not found", which a lookup with no flags (and a lookup_and_delete on a
\* kernel that has it) never meets.
C2_LookupAbsence ==
    [][LET c == last' IN
        (c.op \in {"lookup", "lookup_and_delete"} /\ Len(c.key) = key_size)
        => /\ KernelFailed(c) => c.ret = System(c.errno)
           /\ ~KernelFailed(c) =>
                IF c.key \in KeysOf(kmap)
                    THEN /\ c.ret = OkSome(ValueOf(kmap, c.key))
                         /\ Len(c.ret.val) = value_size
                    ELSE c.ret = OkNone
           /\ (c.op = "lookup" /\ c.flags = MapFlags.ANY) => ~KernelFailed(c)
           /\ (c.op = "lookup_and_delete" /\ lad_hash) => ~KernelFailed(c)]_vars

C2_Witness ==
    /\ last.op = "lookup"
    /\ Len(last.key) = key_size
    /\ last.key \notin KeysOf(kmap)
    /\ Len(kmap) > 0
    /\ last.ret = OkNone

\* C3: delete of an absent key of key_size bytes returns a System error and
\* leaves the map unchanged; lookup of that key right after returns Ok(None).
C3_DeleteAbsent ==
    [][LET c == last' IN
        /\ (c.op = "delete" /\ Len(c.key) = key_size /\ c.key \notin KeysOf(kmap))
           => c.ret.tag = "System" /\ c.ret.code > 0 /\ kmap' = kmap
        /\ (/\ last.op = "delete" /\ last.ret.tag = "System"
            /\ c.op = "lookup" /\ c.key = last.key /\ c.flags = MapFlags.ANY)
           => c.ret = OkNone]_vars

C3_Witness ==
    /\ last.op = "delete"
    /\ Len(last.key) = key_size
    /\ last.ret.tag = "System"
    /\ Len(kmap) > 0

\* C4: lookup(k, ANY) right after a successful update(k, v, ANY) returns
\* Some(v), whether the update inserted k or replaced its value.
C4_RoundTrip ==
    [][(/\ last.op = "update" /\ last.flags = MapFlags.ANY /\ last.ret = OkUnit
        /\ last'.op = "lookup" /\ last'.key = last.key /\ last'.flags = MapFlags.ANY)
       => last'.ret = OkSome(last.value)]_vars

C4_Witness ==
    /\ last.op = "lookup"
    /\ last.flags = MapFlags.ANY
    /\ last.ret.tag = "Some"
    /\ last.ret.val = [i \in 1..value_size |-> 1]
    /\ Len(kmap) > 1

\* C5: while the map is not mutated, a keys() loop yields keys of the map, each
\* key_size bytes long and none twice; when next() returns None it has yielded
\* every key of the map.
C5_IterExhaustive ==
    (iter.live /\ stable) =>
        /\ Range(yielded) \subseteq KeysOf(kmap)
        /\ Cardinality(Range(yielded)) = Len(yielded)
        /\ \A i \in 1..Len(yielded) : Len(yielded[i]) = key_size
        /\ iter.done => /\ Range(yielded) = KeysOf(kmap)
                        /\ last.op = "next" => last.ret = OkNone

C5_Witness ==
    /\ iter.live /\ stable /\ iter.done
    /\ last.op = "next"
    /\ Len(yielded) >= 2

\* C6 as claimed: every keys() loop reaches the next() that returns None,
\* whatever inserts and deletes interleave with it.
C6_AlwaysTerminates == (iter.live /\ ~iter.done) ~> iter.done

\* C6 amended: a keys() loop reaches the next() that returns None unless the
\* map is mutated again and again without end; its buffers keep key_size
\* bytes throughout.
C6_TerminatesOnceQuiet ==
    /\ [](iter.live => Len(iter.next) = key_size)
    /\ \/ []<><<kmap' # kmap>>_vars
       \/ (iter.live /\ ~iter.done) ~> iter.done

C6_Witness ==
    /\ iter.live /\ iter.done /\ ~stable
    /\ Len(kmap) > 0

\* C7 as claimed: every System(code) carries the positive OS error number of
\* the failure behind it.
C7_PositiveErrno ==
    last.ret.tag = "System" => (last.ret.code > 0 /\ last.ret.code = last.errno)

\* C8: an attach variant whose error signal is not zero returns System with
\* that signal as its code and constructs no Link; a Link is constructed only
\* when the signal is zero, and then it is the Link of the new bpf_link.
C8_AttachErrorSignal ==
    [][LET c == last' IN
        c.op \in AttachVariants
        => /\ c.sig # 0 => (c.ret = System(c.sig) /\ links' = links)
           /\ links' # links => (c.sig = 0 /\ c.ret.tag = "Link")
           /\ c.ret.tag = "Link" =>
                (c.sig = 0 /\ links' = links \cup {c.ret.val[1]})]_vars

C8_Witness ==
    /\ last.op = "attach_kprobe"
    /\ last.sig # 0
    /\ last.ret.tag = "System"
    /\ links # {}

NeverPinned(c) ==
    /\ c.op = "try_from_path"
    /\ c.arg \in Paths
    /\ fs[c.arg] = "none"
    /\ c.arg \notin ever_pinned
C10_NeverPinnedIsSystem == NeverPinned(last) => last.ret.tag = "System"

\* C10 amended: try_from_path on a path that was never pinned and names nothing
\* fails with InvalidInput before any kernel call; it fails with System, with
\* the errno of bpf_obj_get, on a file that is no pinned BPF object.
C10_NeverPinnedIsInvalidInput ==
    /\ NeverPinned(last) => (last.ret = InvalidInput /\ last.kcalls = <<>>)
    /\ (last.op = "try_from_path" /\ last.arg \in Paths /\ fs[last.arg] = "file")
       => /\ last.ret.tag = "System" /\ last.ret.code = last.errno
          /\ last.kcalls = <<"bpf_obj_get">>

C10_Witness ==
    /\ NeverPinned(last)
    /\ last.ret = InvalidInput
    /\ ever_pinned # {}

\* C11 as claimed: every fd try_from_path obtained is owned by one live
\* PinnedMap and closed when that PinnedMap is dropped; after a try_from_path
\* that failed no fd is open without an owning handle.
C11_EveryFdOwned ==
    /\ open_fds = {h.fd : h \in pmaps}
    /\ \A h1 \in pmaps, h2 \in pmaps : h1.fd = h2.fd => h1 = h2

\* C12 as claimed: a mutator of the OpenMap called after the load returns an
\* error and leaves the map's settings as they were.
OpenMutators ==
    {"set_map_ifindex", "set_initial_value", "set_max_entries",
     "set_inner_map_fd", "reuse_pinned_map"}
C12_MutatorsFailAfterLoad ==
    [][(omap.loaded /\ last'.op \in OpenMutators)
       => /\ last'.ret.tag \in {"System", "InvalidInput"}
          /\ omap' = omap]_vars

\* C13: the first next() of a keys() loop asks the kernel with no previous
\* key and so gets the map's first key; a next() that returns Some(k) stores k
\* as the previous key, so the next() right after it gets the key after k; a
\* next() whose kernel call fails returns None, never an error, and leaves the
\* previous key as it was.
C13_CursorProtocol ==
    [][last'.op = "next" =>
        /\ last.op = "keys" =>
            /\ iter.prev = NoKey
            /\ Len(kmap) > 0 => last'.ret = OkSome(kmap[1].key)
        /\ last'.ret.tag = "Some" => iter'.prev = SomeKey(last'.ret.val)
        /\ (last.op = "next" /\ last.ret.tag = "Some") =>
            /\ iter.prev = SomeKey(last.ret.val)
            /\ LET i == IndexOf(kmap, last.ret.val)
               IN  IF i < Len(kmap)
                       THEN last'.ret = OkSome(kmap[i + 1].key)
                       ELSE last'.ret = OkNone
        /\ last'.sig # 0 => (last'.ret = OkNone /\ iter'.prev = iter.prev)
        /\ last'.ret.tag \in {"Some", "None"}]_vars

C13_Witness ==
    /\ last.op = "next"
    /\ last.sig # 0
    /\ last.ret = OkNone
    /\ Len(kmap) >= 2
    /\ iter.prev = SomeKey(kmap[Len(kmap)].key)

\* C14: reuse_pinned_map closes the fd that bpf_obj_get gave it exactly once,
\* after the bind and whether the bind succeeded or failed, so that fd is not
\* open when the call returns; when bpf_obj_get fails it returns that System
\* error with no bind and no close and the open fds are as before; a failed
\* bind is returned as a System error and leaves the bpf_map as it was.
C14_ReuseClosesTempFd ==
    [][LET c == last' IN
        c.op = "reuse_pinned_map" =>
          \/ /\ c.kcalls = <<>>
             /\ c.ret = InvalidInput
             /\ c.arg \in NulPaths
             /\ open_fds' = open_fds /\ omap' = omap
          \/ /\ c.kcalls = <<"bpf_obj_get">>
             /\ c.sig < 0
             /\ c.ret = System(c.errno)
             /\ open_fds' = open_fds /\ omap' = omap
          \/ /\ c.kcalls = <<"bpf_obj_get", "bpf_map__reuse_fd", "close">>
             /\ c.arg \in Paths /\ fs[c.arg] \in {"map", "prog"}
             /\ LowestFree \notin open_fds'
             /\ IF c.sig # 0
                  THEN /\ c.ret = System(-c.sig)
                       /\ open_fds' = open_fds /\ omap' = omap
                  ELSE /\ c.ret = OkUnit
                       /\ omap'.fd \in open_fds' \ open_fds
                       /\ open_fds' \ {omap'.fd} = open_fds \ {omap.fd}]_vars

C14_Witness ==
    /\ last.op = "reuse_pinned_map"
    /\ last.kcalls = <<"bpf_obj_get", "bpf_map__reuse_fd", "close">>
    /\ last.sig # 0
    /\ last.ret.tag = "System"
    /\ omap.reused
    /\ omap.loaded
====
